---- MODULE Spec2Model ----
(***************************************************************************)
(* The Database Rules and Firebase Rules clients of firebase_admin/_rules.py *)
(* and the resource objects they return, as a state machine.  One caller    *)
(* constructs the clients from an App, invokes their operations against a   *)
(* transport (_http_client) whose answers are nondeterministic, and reads   *)
(* the lazily loaded files of a Ruleset.                                    *)
(*                                                                         *)
(* Python values: a str is a TLA+ string; None is <<>> and any other value  *)
(* v held in an optional position is <<v>>; an object is a record tagged    *)
(* with its class; a JSON dict is an untagged record; a list is a sequence. *)
(***************************************************************************)
EXTENDS Integers, Sequences, FiniteSets, TLC

VARIABLES
    fb,          \* the _FirebaseRulesService instance of the caller (None before construction)
    db,          \* the _DatabaseRulesService instance of the caller (None before construction)
    httpClients, \* how many _http_client objects the constructors have created
    ruleset,     \* the Ruleset instance the caller constructed with files absent (None before)
    sent,        \* the requests handed to the transport by the latest operation, in order
    last         \* the latest operation: its name, arguments, the transport's answer, its outcome

vars == <<fb, db, httpClients, ruleset, sent, last>>

None == <<>>
Some(v) == <<v>>

(***************************************************************************)
(* str helpers                                                             *)
(***************************************************************************)
CharAt(s, i) == SubSeq(s, i, i)

StartsWith(s, prefix) ==
    /\ Len(prefix) <= Len(s)
    /\ SubSeq(s, 1, Len(prefix)) = prefix

Drop(s, k) == SubSeq(s, k + 1, Len(s))

\* `not x` for an optional str: None and '' are falsy
Falsy(x) == x = None \/ x = Some("")

(***************************************************************************)
(* Outcomes of a Python call                                               *)
(***************************************************************************)
Return(v) == [kind |-> "return", value |-> v]
Raise(type, message, detail) ==
    [kind |-> "raise", type |-> type, message |-> message, detail |-> detail]

\* RulesApiCallError(message, error): Exception.__init__(message); self.detail = error
RulesApiCallError(message, error) == Raise("RulesApiCallError", message, Some(error))

(***************************************************************************)
(* The transport: self._client.body(...) returns the body of a successful   *)
(* response or raises requests.exceptions.RequestException, which carries   *)
(* the response (with its status code) or, for a network-level failure, no  *)
(* response.                                                               *)
(***************************************************************************)
TableStatuses == {400, 401, 403, 404, 409, 423, 429, 500, 503}
OtherStatuses == {418, 502}
ErrorStatuses == TableStatuses \cup OtherStatuses

RequestException(response, text) ==
    [class |-> "RequestException", response |-> response, text |-> text]

TransportErrors ==
    {RequestException(None, "Connection aborted.")}
        \cup {RequestException(Some([status_code |-> s]), ToString(s) \o " Error")
                : s \in ErrorStatuses}

Ok(body) == [kind |-> "ok", body |-> body]
Fail(error) == [kind |-> "error", error |-> error]

Request(method, url, data, json, timeout) ==
    [method |-> method, url |-> url, data |-> data, json |-> json, timeout |-> timeout]

(***************************************************************************)
(* The App a client is constructed from                                    *)
(***************************************************************************)
App(project_id, databaseURL, storageBucket, httpTimeout) ==
    [project_id |-> project_id,
     options |-> [databaseURL |-> databaseURL, storageBucket |-> storageBucket,
                  httpTimeout |-> httpTimeout]]

DbUrl == "https://db1.firebaseio.com"

Apps ==
    { App(None, None, None, None),
      App(Some(""), Some(""), Some(""), None),
      App(Some("p1"), Some(DbUrl), Some("b1"), Some(5)),
      App(Some("p1"), None, Some(""), None),
      App(Some("a/b"), Some(DbUrl), None, None) }

VersionHeader == [X_Client_Version |-> "Python/Admin/" \o "__version__"]

HttpClient(class, base_url) ==
    [class |-> class, base_url |-> base_url, headers |-> VersionHeader]

\* what a constructor leaves: the instance (None when it raised), its outcome, and
\* the number of _http_client objects it created
Constructed(instance, created) ==
    [instance |-> Some(instance), out |-> Return(None), created |-> created]
ConstructionFailed(type, message) ==
    [instance |-> None, out |-> Raise(type, message, None), created |-> 0]

(***************************************************************************)
(* _DatabaseRulesService                                                   *)
(***************************************************************************)
DATABASE_RULES_PATH == "/.settings/rules.json"

ERROR_CODES ==
    (400 :> "Invalid argument provided."
     @@ 401 :> "Request not authorized."
     @@ 403 :> "Client does not have sufficient privileges."
     @@ 404 :> "The specified entity could not be found."
     @@ 409 :> "The specified entity already exists."
     @@ 423 :> "The database has been manually locked by an owner."
     @@ 500 :> "Internal server error."
     @@ 503 :> "The server could not process the request in time.")

\* a constructor that creates its HTTP client before it looks at the database URL
DatabaseRulesService_init_ClientFirst(app) ==
    LET db_url == app.options.databaseURL
    IN  IF Falsy(db_url)
        THEN [instance |-> None,
              out |-> Raise("ValueError", "Database URL is required", None),
              created |-> 1]
        ELSE Constructed(
                 [class |-> "_DatabaseRulesService",
                  db_url |-> db_url[1],
                  client |-> HttpClient("TextHttpClient", db_url[1]),
                  timeout |-> app.options.httpTimeout],
                 1)

DatabaseRulesService_init(app) ==
    LET db_url == app.options.databaseURL
    IN  IF Falsy(db_url)
        THEN ConstructionFailed("ValueError",
                 "Database URL is required to access the Database Rules Service. Make sure "
                 \o "to set the databaseURL option.")
        ELSE Constructed(
                 [class |-> "_DatabaseRulesService",
                  db_url |-> db_url[1],
                  client |-> HttpClient("TextHttpClient", db_url[1]),
                  timeout |-> app.options.httpTimeout],
                 1)

\* _extract_message returns the message, or raises: str.format with the
\* replacement field {2} and two arguments raises IndexError
DatabaseExtractMessage(operation, error) ==
    IF error.response = None
    THEN Return(operation \o " Database rules: " \o error.text)
    ELSE LET status == error.response[1].status_code
         IN  IF status \in DOMAIN ERROR_CODES
             THEN Return(operation \o " Database rules: " \o ERROR_CODES[status])
             ELSE Raise("IndexError",
                        "Replacement index 2 out of range for positional args tuple", None)

\* _make_request: one transport call; reply is the transport's answer to it
DatabaseMakeRequest(self, method, operation, data, reply) ==
    LET request == Request(method, DATABASE_RULES_PATH, data, None, self.timeout)
    IN  IF reply.kind = "ok"
        THEN [sent |-> <<request>>, out |-> Return(reply.body)]
        ELSE LET m == DatabaseExtractMessage(operation, reply.error)
             IN  [sent |-> <<request>>,
                  out |-> IF m.kind = "raise" THEN m
                          ELSE RulesApiCallError(m.value, reply.error)]

Database_get_rules(self, reply) ==
    DatabaseMakeRequest(self, "get", "Get", None, reply)

Database_set_rules(self, content, reply) ==
    LET r == DatabaseMakeRequest(self, "put", "Set", Some(content), reply)
    IN  [sent |-> r.sent, out |-> IF r.out.kind = "return" THEN Return(None) ELSE r.out]

RulesTexts == {"{\"rules\": {}}", ""}
DatabaseReplies == {Ok(Some(t)) : t \in RulesTexts} \cup {Fail(e) : e \in TransportErrors}

(***************************************************************************)
(* Resource objects                                                        *)
(***************************************************************************)
RulesetFile(name, content) == [class |-> "RulesetFile", name |-> name, content |-> content]

\* Ruleset.__init__(ruleset_id, create_time, files=None, service=None)
Ruleset(ruleset_id, create_time, files, service) ==
    [class |-> "Ruleset", ruleset_id |-> ruleset_id, create_time |-> create_time,
     files |-> files, service |-> service]

RulesRelease(name, ruleset_id, create_time, update_time) ==
    [class |-> "RulesRelease", name |-> name, ruleset_id |-> ruleset_id,
     create_time |-> create_time, update_time |-> update_time]

(***************************************************************************)
(* _FirebaseRulesService                                                   *)
(***************************************************************************)
BASE_URL == "https://firebaserules.googleapis.com"
API_VERSION == "v1"

FIREBASE_ERROR_CODES ==
    (400 :> "Invalid argument provided."
     @@ 401 :> "Request not authorized."
     @@ 403 :> "Client does not have sufficient privileges."
     @@ 404 :> "The specified entity could not be found."
     @@ 409 :> "The specified entity already exists."
     @@ 429 :> "Quota exceeded for the requested resource."
     @@ 500 :> "Internal server error."
     @@ 503 :> "The server could not process the request in time.")

RELEASE_NAME_FOR_SERVICE ==
    [service \in {"firestore", "storage"} |->
        IF service = "firestore" THEN "cloud.firestore" ELSE "firebase.storage"]

FirebaseRulesService_init(app) ==
    LET project_id == app.project_id
    IN  IF Falsy(project_id)
        THEN ConstructionFailed("ValueError",
                 "Project ID is required to access the Firebase Rules Service. Either "
                 \o "set the projectId option, or use service account credentials. "
                 \o "Alternatively, set the GOOGLE_CLOUD_PROJECT environment variable.")
        ELSE Constructed(
                 [class |-> "_FirebaseRulesService",
                  project_id |-> project_id[1],
                  storage_bucket |-> app.options.storageBucket,
                  client |-> HttpClient("JsonHttpClient",
                                BASE_URL \o "/" \o API_VERSION \o "/projects/"
                                    \o project_id[1] \o "/"),
                  timeout |-> app.options.httpTimeout],
                 1)

\* the status table of the Database Rules client in place of this client's
FirebaseExtractMessage_DatabaseTable(identifier, identifier_label, error) ==
    IF error.response = None
    THEN identifier_label \o " \"" \o identifier \o "\": " \o error.text
    ELSE LET status == error.response[1].status_code
         IN  IF status \in DOMAIN ERROR_CODES
             THEN identifier_label \o " \"" \o identifier \o "\": " \o ERROR_CODES[status]
             ELSE identifier_label \o " \"" \o identifier \o "\": Error "
                      \o ToString(status) \o "."

FirebaseExtractMessage(identifier, identifier_label, error) ==
    IF error.response = None
    THEN identifier_label \o " \"" \o identifier \o "\": " \o error.text
    ELSE LET status == error.response[1].status_code
         IN  IF status \in DOMAIN FIREBASE_ERROR_CODES
             THEN identifier_label \o " \"" \o identifier \o "\": "
                      \o FIREBASE_ERROR_CODES[status]
             ELSE identifier_label \o " \"" \o identifier \o "\": Error "
                      \o ToString(status) \o "."

\* a _make_request that calls the transport again after a failure
FirebaseMakeRequest_Retry(self, method, url, resource_identifier, resource_identifier_label, json, reply) ==
    LET request == Request(method, url, None, json, self.timeout)
    IN  IF reply.kind = "ok"
        THEN [sent |-> <<request>>, out |-> Return(reply.body)]
        ELSE [sent |-> <<request, request>>,
              out |-> RulesApiCallError(
                          FirebaseExtractMessage(resource_identifier,
                                                 resource_identifier_label, reply.error),
                          reply.error)]

\* _make_request: one transport call; reply is the transport's answer to it
FirebaseMakeRequest(self, method, url, resource_identifier, resource_identifier_label, json, reply) ==
    LET request == Request(method, url, None, json, self.timeout)
    IN  IF reply.kind = "ok"
        THEN [sent |-> <<request>>, out |-> Return(reply.body)]
        ELSE [sent |-> <<request>>,
              out |-> RulesApiCallError(
                          FirebaseExtractMessage(resource_identifier,
                                                 resource_identifier_label, reply.error),
                          reply.error)]

\* The end of the longest prefix of s that holds no "/" (0 when s starts with "/")
RECURSIVE NoSlashPrefix(_, _)
NoSlashPrefix(s, i) ==
    IF i < Len(s) /\ CharAt(s, i + 1) # "/" THEN NoSlashPrefix(s, i + 1) ELSE i

\* The end of the longest prefix of s that holds no line break
RECURSIVE NoNewlinePrefix(_, _)
NoNewlinePrefix(s, i) ==
    IF i < Len(s) /\ CharAt(s, i + 1) # "\n" THEN NoNewlinePrefix(s, i + 1) ELSE i

\* re.search('^projects/([^/]+)' + collection + '(.+)$', name): None, or the match's
\* group 2.  [^/]+ takes every character up to the next "/" (at least one); "." is
\* any character but a line break; "$" is the end of the string or the place
\* before a line break that ends the string.
ReSearchGroup2(collection, name) ==
    IF ~StartsWith(name, "projects/")
    THEN None
    ELSE LET rest == Drop(name, Len("projects/"))
             g1 == NoSlashPrefix(rest, 0)
             after == Drop(rest, g1)
         IN  IF g1 = 0 \/ ~StartsWith(after, collection)
             THEN None
             ELSE LET tail == Drop(after, Len(collection))
                      g2 == NoNewlinePrefix(tail, 0)
                  IN  IF g2 >= 1 /\ (g2 = Len(tail)
                                     \/ (g2 = Len(tail) - 1 /\ CharAt(tail, Len(tail)) = "\n"))
                      THEN Some(SubSeq(tail, 1, g2))
                      ELSE None

AttributeError ==
    Raise("AttributeError", "'NoneType' object has no attribute 'group'", None)

\* a release name extracted with '([^/]+)$' in place of '(.+)$'
ExtractReleaseName_NoSlash(name) ==
    LET m == ReSearchGroup2("/releases/", name)
    IN  IF m = None \/ NoSlashPrefix(m[1], 0) # Len(m[1]) THEN AttributeError
        ELSE Return(m[1])

\* m = re.search(...); return m.group(2)
ExtractReleaseName(name) ==
    LET m == ReSearchGroup2("/releases/", name)
    IN  IF m = None THEN AttributeError ELSE Return(m[1])

ExtractRulesetId(name) ==
    LET m == ReSearchGroup2("/rulesets/", name)
    IN  IF m = None THEN AttributeError ELSE Return(m[1])

GetRulesetFileObj(file) == RulesetFile(file.name, file.content)

\* list(map(_FirebaseRulesService._get_ruleset_file_obj, files))
RulesetFileObjs(files) == [i \in 1..Len(files) |-> GetRulesetFileObj(files[i])]

\* RulesRelease(_extract_release_name(response["name"]),
\*              _extract_ruleset_id(response["rulesetName"]), ...)
ReleaseFromResponse(response) ==
    LET name == ExtractReleaseName(response.name)
        ruleset_id == ExtractRulesetId(response.rulesetName)
    IN  IF name.kind = "raise" THEN name
        ELSE IF ruleset_id.kind = "raise" THEN ruleset_id
        ELSE Return(Some(RulesRelease(name.value, ruleset_id.value,
                                      response.createTime, response.updateTime)))

\* a Ruleset built without the files of the response
RulesetFromResponse_NoFiles(response) ==
    LET ruleset_id == ExtractRulesetId(response.name)
    IN  IF ruleset_id.kind = "raise" THEN ruleset_id
        ELSE Return(Some(Ruleset(ruleset_id.value, response.createTime, None, None)))

\* Ruleset(_extract_ruleset_id(response["name"]), response["createTime"], files=list(map(...)))
RulesetFromResponse(response) ==
    LET ruleset_id == ExtractRulesetId(response.name)
    IN  IF ruleset_id.kind = "raise" THEN ruleset_id
        ELSE Return(Some(Ruleset(ruleset_id.value, response.createTime,
                                 Some(RulesetFileObjs(response.source.files)),
                                 None)))

ReleaseRequestBody(self, name, ruleset_id) ==
    [release |->
        [name |-> "projects/" \o self.project_id \o "/releases/" \o name,
         rulesetName |-> "projects/" \o self.project_id \o "/rulesets/" \o ruleset_id]]

Firebase_get_rules_release(self, name, reply) ==
    LET path == "releases/" \o name
        r == FirebaseMakeRequest(self, "get", path, name, "Release", None, reply)
    IN  [sent |-> r.sent,
         out |-> IF r.out.kind = "raise" THEN r.out ELSE ReleaseFromResponse(r.out.value)]

Firebase_create_rules_release(self, name, ruleset_id, reply) ==
    LET path == "releases"
        request_body == ReleaseRequestBody(self, name, ruleset_id)
        r == FirebaseMakeRequest(self, "post", path, name, "Release",
                                 Some(request_body), reply)
    IN  [sent |-> r.sent,
         out |-> IF r.out.kind = "raise" THEN r.out ELSE ReleaseFromResponse(r.out.value)]

\* an update sent the way create is
Firebase_update_rules_release_AsCreate(self, name, ruleset_id, reply) ==
    Firebase_create_rules_release(self, name, ruleset_id, reply)

Firebase_update_rules_release(self, name, ruleset_id, reply) ==
    LET path == "releases/" \o name
        request_body == ReleaseRequestBody(self, name, ruleset_id)
        r == FirebaseMakeRequest(self, "patch", path, name, "Release",
                                 Some(request_body), reply)
    IN  [sent |-> r.sent,
         out |-> IF r.out.kind = "raise" THEN r.out ELSE ReleaseFromResponse(r.out.value)]

Firebase_get_ruleset(self, ruleset_id, reply) ==
    LET path == "rulesets/" \o ruleset_id
        r == FirebaseMakeRequest(self, "get", path, ruleset_id, "Ruleset ID", None, reply)
    IN  [sent |-> r.sent,
         out |-> IF r.out.kind = "raise" THEN r.out ELSE RulesetFromResponse(r.out.value)]

\* list(map(lambda f: {'name': f.name, 'content': f.content}, files))
FilesList(files) == [i \in 1..Len(files) |-> [name |-> files[i].name, content |-> files[i].content]]

Firebase_create_ruleset(self, files, reply) ==
    LET path == "rulesets"
        files_list == FilesList(files)
        request_body == [source |-> [files |-> files_list]]
        r == FirebaseMakeRequest(self, "post", path, "create", "Ruleset ID",
                                 Some(request_body), reply)
    IN  [sent |-> r.sent,
         out |-> IF r.out.kind = "raise" THEN r.out ELSE RulesetFromResponse(r.out.value)]

Firebase_delete_ruleset(self, ruleset_id, reply) ==
    LET path == "rulesets/" \o ruleset_id
        r == FirebaseMakeRequest(self, "delete", path, ruleset_id, "Ruleset ID", None, reply)
    IN  [sent |-> r.sent, out |-> IF r.out.kind = "raise" THEN r.out ELSE Return(None)]

\* a mapping that does not look for the bucket
Firebase_get_release_name_for_service_NoBucketCheck(self, service) ==
    IF service \notin DOMAIN RELEASE_NAME_FOR_SERVICE
    THEN Raise("KeyError", service, None)
    ELSE LET baseName == RELEASE_NAME_FOR_SERVICE[service]
         IN  IF service = "storage" /\ self.storage_bucket # None
             THEN Return(Some(baseName \o "/" \o self.storage_bucket[1]))
             ELSE Return(Some(baseName))

Firebase_get_release_name_for_service(self, service) ==
    IF service \notin DOMAIN RELEASE_NAME_FOR_SERVICE
    THEN Raise("KeyError", service, None)
    ELSE LET baseName == RELEASE_NAME_FOR_SERVICE[service]
         IN  IF service = "storage"
             THEN IF Falsy(self.storage_bucket)
                  THEN Raise("ValueError",
                             "Unable to determine the storage bucket to use. Make sure to set "
                             \o "the \"storageBucket\" option when calling initializeApp().",
                             None)
                  ELSE Return(Some(baseName \o "/" \o self.storage_bucket[1]))
             ELSE Return(Some(baseName))

(***************************************************************************)
(* Ruleset.files                                                           *)
(***************************************************************************)
\* The property read on `self` when the transport answers a fetch with `reply`:
\* the instance afterwards, the requests issued, and what the read returns or
\* raises.  self.service holds the client the instance refers to.
\* a read that drops the client reference once the files are loaded
Ruleset_files_DropsService(self, reply) ==
    IF self.files = None /\ self.service # None
    THEN LET r == Firebase_get_ruleset(self.service[1], self.ruleset_id, reply)
         IN  IF r.out.kind = "raise"
             THEN [self |-> self, sent |-> r.sent, out |-> r.out]
             ELSE [self |-> [self EXCEPT !.files = r.out.value[1].files, !.service = None],
                   sent |-> r.sent,
                   out |-> Return(r.out.value[1].files)]
    ELSE [self |-> self, sent |-> <<>>, out |-> Return(self.files)]

\* a read that takes a failed fetch for an empty file list
Ruleset_files_EmptyOnFailure(self, reply) ==
    IF self.files = None /\ self.service # None
    THEN LET r == Firebase_get_ruleset(self.service[1], self.ruleset_id, reply)
         IN  IF r.out.kind = "raise"
             THEN [self |-> [self EXCEPT !.files = Some(<<>>)],
                   sent |-> r.sent,
                   out |-> Return(Some(<<>>))]
             ELSE [self |-> [self EXCEPT !.files = r.out.value[1].files],
                   sent |-> r.sent,
                   out |-> Return(r.out.value[1].files)]
    ELSE [self |-> self, sent |-> <<>>, out |-> Return(self.files)]

\* a read that fetches and returns the files but does not keep them
Ruleset_files_NotKept(self, reply) ==
    IF self.files = None /\ self.service # None
    THEN LET r == Firebase_get_ruleset(self.service[1], self.ruleset_id, reply)
         IN  [self |-> self, sent |-> r.sent,
              out |-> IF r.out.kind = "raise" THEN r.out
                      ELSE Return(r.out.value[1].files)]
    ELSE [self |-> self, sent |-> <<>>, out |-> Return(self.files)]

RECURSIVE Ruleset_files(_, _)
Ruleset_files(self, reply) ==
    IF self.files = None /\ self.service # None
    THEN LET r == Firebase_get_ruleset(self.service[1], self.ruleset_id, reply)
         IN  IF r.out.kind = "raise"
             THEN [self |-> self, sent |-> r.sent, out |-> r.out]
             ELSE LET inner == Ruleset_files(r.out.value[1], reply)
                  IN  IF inner.out.kind = "raise"
                      THEN [self |-> self, sent |-> r.sent \o inner.sent, out |-> inner.out]
                      ELSE [self |-> [self EXCEPT !.files = inner.out.value],
                            sent |-> r.sent \o inner.sent,
                            out |-> Return(inner.out.value)]
    ELSE [self |-> self, sent |-> <<>>, out |-> Return(self.files)]

(***************************************************************************)
(* What the caller passes and what the backend answers                     *)
(***************************************************************************)
MaxFiles == 2

ReleaseNames == {"", "live", "firebase.storage/b1", "live\n", "a\nb"}
RulesetIds == {"", "abc", "abc\n"}
Services == {"firestore", "storage", "database"}

\* resource names a response may carry besides the ones built from the request
OtherNames ==
    {"", "live", "projects//releases/live", "projects//rulesets/abc",
     "projects/p1/releases/live", "projects/p1/rulesets/abc"}

CreateTime == "2019-06-01T00:00:00Z"
UpdateTime == "2019-06-02T00:00:00Z"

SourceFiles ==
    {[name |-> "firestore.rules", content |-> "service cloud.firestore {}"],
     [name |-> "storage.rules", content |-> "service firebase.storage {}"]}

SeqsUpTo(S, n) == UNION {[1..k -> S] : k \in 0..n}

\* the file lists of a response, and the RulesetFile lists a caller passes
SourceFileLists == SeqsUpTo(SourceFiles, MaxFiles)
RulesetFileLists == {RulesetFileObjs(l) : l \in SourceFileLists}

ReleaseResponse(name, rulesetName) ==
    [name |-> name, rulesetName |-> rulesetName,
     createTime |-> CreateTime, updateTime |-> UpdateTime]

\* the backend echoes the names of the request body
EchoRelease(self, name, ruleset_id) ==
    ReleaseResponse("projects/" \o self.project_id \o "/releases/" \o name,
                    "projects/" \o self.project_id \o "/rulesets/" \o ruleset_id)

ReleaseReplies(self, name, ruleset_id) ==
    LET echo == EchoRelease(self, name, ruleset_id)
    IN  {Ok(echo)}
            \cup {Ok(ReleaseResponse(o, echo.rulesetName)) : o \in OtherNames}
            \cup {Ok(ReleaseResponse(echo.name, o)) : o \in OtherNames}
            \cup {Fail(e) : e \in TransportErrors}

RulesetResponse(name, files) ==
    [name |-> name, createTime |-> CreateTime, source |-> [files |-> files]]

RulesetReplies(self) ==
    {Ok(RulesetResponse(n, l)) :
        n \in {"projects/" \o self.project_id \o "/rulesets/" \o i : i \in RulesetIds}
                  \cup OtherNames,
        l \in SourceFileLists}
        \cup {Fail(e) : e \in TransportErrors}

\* the body of a successful delete: the empty JSON object
EmptyDict == <<>>
DeleteReplies == {Ok(EmptyDict)} \cup {Fail(e) : e \in TransportErrors}

(***************************************************************************)
(* The caller                                                              *)
(***************************************************************************)
Op(name, args, reply, out) == [op |-> name, args |-> args, reply |-> reply, out |-> out]

NoOp == Op("none", <<>>, None, Return(None))

Init ==
    /\ fb = None
    /\ db = None
    /\ httpClients = 0
    /\ ruleset = None
    /\ sent = <<>>
    /\ last = NoOp

\* Calls are synchronous: the caller invokes the next operation once the latest
\* one has returned or raised and it has taken the outcome.
Idle == last = NoOp

Continue ==
    /\ ~Idle
    /\ last' = NoOp
    /\ sent' = <<>>
    /\ UNCHANGED <<fb, db, httpClients, ruleset>>

ConstructDatabaseRulesService ==
    /\ Idle
    /\ db = None
    /\ \E app \in Apps :
         LET r == DatabaseRulesService_init(app)
         IN  /\ db' = r.instance
             /\ httpClients' = httpClients + r.created
             /\ sent' = <<>>
             /\ last' = Op("_DatabaseRulesService", <<app>>, None, r.out)
    /\ UNCHANGED <<fb, ruleset>>

DatabaseGetRules ==
    /\ Idle
    /\ db # None
    /\ \E reply \in DatabaseReplies :
         LET r == Database_get_rules(db[1], reply)
         IN  /\ sent' = r.sent
             /\ last' = Op("get_rules", <<>>, Some(reply), r.out)
    /\ UNCHANGED <<fb, db, httpClients, ruleset>>

DatabaseSetRules ==
    /\ Idle
    /\ db # None
    /\ \E content \in RulesTexts, reply \in DatabaseReplies :
         LET r == Database_set_rules(db[1], content, reply)
         IN  /\ sent' = r.sent
             /\ last' = Op("set_rules", <<content>>, Some(reply), r.out)
    /\ UNCHANGED <<fb, db, httpClients, ruleset>>

ConstructFirebaseRulesService ==
    /\ Idle
    /\ fb = None
    /\ \E app \in Apps :
         LET r == FirebaseRulesService_init(app)
         IN  /\ fb' = r.instance
             /\ httpClients' = httpClients + r.created
             /\ sent' = <<>>
             /\ last' = Op("_FirebaseRulesService", <<app>>, None, r.out)
    /\ UNCHANGED <<db, ruleset>>

GetRulesRelease ==
    /\ Idle
    /\ fb # None
    /\ \E name \in ReleaseNames, ruleset_id \in RulesetIds :
       \E reply \in ReleaseReplies(fb[1], name, ruleset_id) :
         LET r == Firebase_get_rules_release(fb[1], name, reply)
         IN  /\ sent' = r.sent
             /\ last' = Op("get_rules_release", <<name>>, Some(reply), r.out)
    /\ UNCHANGED <<fb, db, httpClients, ruleset>>

CreateRulesRelease ==
    /\ Idle
    /\ fb # None
    /\ \E name \in ReleaseNames, ruleset_id \in RulesetIds :
       \E reply \in ReleaseReplies(fb[1], name, ruleset_id) :
         LET r == Firebase_create_rules_release(fb[1], name, ruleset_id, reply)
         IN  /\ sent' = r.sent
             /\ last' = Op("create_rules_release", <<name, ruleset_id>>, Some(reply), r.out)
    /\ UNCHANGED <<fb, db, httpClients, ruleset>>

UpdateRulesRelease ==
    /\ Idle
    /\ fb # None
    /\ \E name \in ReleaseNames, ruleset_id \in RulesetIds :
       \E reply \in ReleaseReplies(fb[1], name, ruleset_id) :
         LET r == Firebase_update_rules_release(fb[1], name, ruleset_id, reply)
         IN  /\ sent' = r.sent
             /\ last' = Op("update_rules_release", <<name, ruleset_id>>, Some(reply), r.out)
    /\ UNCHANGED <<fb, db, httpClients, ruleset>>

GetRuleset ==
    /\ Idle
    /\ fb # None
    /\ \E ruleset_id \in RulesetIds, reply \in RulesetReplies(fb[1]) :
         LET r == Firebase_get_ruleset(fb[1], ruleset_id, reply)
         IN  /\ sent' = r.sent
             /\ last' = Op("get_ruleset", <<ruleset_id>>, Some(reply), r.out)
    /\ UNCHANGED <<fb, db, httpClients, ruleset>>

CreateRuleset ==
    /\ Idle
    /\ fb # None
    /\ \E files \in RulesetFileLists, reply \in RulesetReplies(fb[1]) :
         LET r == Firebase_create_ruleset(fb[1], files, reply)
         IN  /\ sent' = r.sent
             /\ last' = Op("create_ruleset", <<files>>, Some(reply), r.out)
    /\ UNCHANGED <<fb, db, httpClients, ruleset>>

DeleteRuleset ==
    /\ Idle
    /\ fb # None
    /\ \E ruleset_id \in RulesetIds, reply \in DeleteReplies :
         LET r == Firebase_delete_ruleset(fb[1], ruleset_id, reply)
         IN  /\ sent' = r.sent
             /\ last' = Op("delete_ruleset", <<ruleset_id>>, Some(reply), r.out)
    /\ UNCHANGED <<fb, db, httpClients, ruleset>>

GetReleaseNameForService ==
    /\ Idle
    /\ fb # None
    /\ \E service \in Services :
         /\ sent' = <<>>
         /\ last' = Op("_get_release_name_for_service", <<service>>, None,
                       Firebase_get_release_name_for_service(fb[1], service))
    /\ UNCHANGED <<fb, db, httpClients, ruleset>>

\* The caller constructs Ruleset(ruleset_id, create_time) with files absent,
\* referring to its client or to none.
NewRuleset ==
    /\ Idle
    /\ ruleset = None
    /\ \E ruleset_id \in RulesetIds, service \in {None, fb} :
         /\ ruleset' = Some(Ruleset(ruleset_id, CreateTime, None, service))
         /\ last' = Op("Ruleset", <<ruleset_id, service>>, None, Return(None))
    /\ sent' = <<>>
    /\ UNCHANGED <<fb, db, httpClients>>

\* The caller reads ruleset.files
ReadFiles ==
    /\ Idle
    /\ ruleset # None
    /\ LET self == ruleset[1]
       IN  \E reply \in IF self.service = None THEN {Fail(RequestException(None, ""))}
                        ELSE RulesetReplies(self.service[1]) :
             LET r == Ruleset_files(self, reply)
             IN  /\ ruleset' = Some(r.self)
                 /\ sent' = r.sent
                 /\ last' = Op("files", <<self>>, Some(reply), r.out)
    /\ UNCHANGED <<fb, db, httpClients>>

NextDatabase ==
    \/ ConstructDatabaseRulesService
    \/ DatabaseGetRules
    \/ DatabaseSetRules

NextFirebase ==
    \/ ConstructFirebaseRulesService
    \/ GetRulesRelease
    \/ CreateRulesRelease
    \/ UpdateRulesRelease
    \/ GetRuleset
    \/ CreateRuleset
    \/ DeleteRuleset
    \/ GetReleaseNameForService

NextRuleset ==
    \/ NewRuleset
    \/ ReadFiles

Next ==
    \/ Continue
    \/ NextDatabase
    \/ NextFirebase
    \/ NextRuleset

Spec == Init /\ [][Next]_vars

(***************************************************************************)
(* Properties                                                              *)
(***************************************************************************)
DatabaseOps == {"get_rules", "set_rules"}
ReleaseOps == {"get_rules_release", "create_rules_release", "update_rules_release"}
RulesetOps == {"get_ruleset", "create_ruleset", "delete_ruleset"}
FirebaseOps == ReleaseOps \cup RulesetOps

\* the latest operation was answered by the transport with an error
TransportFailed == last.reply # None /\ last.reply[1].kind = "error"
TransportSucceeded == last.reply # None /\ last.reply[1].kind = "ok"

\* C1: every failure the transport reports to get_rules() or set_rules(content),
\* with no response or with any status, reaches the caller as a RulesApiCallError
\* whose message starts with 'Get' or 'Set' and whose detail is the transport error.
C1_DatabaseFailuresWrapped ==
    (last.op \in DatabaseOps /\ TransportFailed) =>
        /\ last.out.kind = "raise"
        /\ last.out.type = "RulesApiCallError"
        /\ StartsWith(last.out.message, IF last.op = "get_rules" THEN "Get" ELSE "Set")
        /\ last.out.detail = Some(last.reply[1].error)

\* the text the Firebase Rules status table gives a status; "Error {status}." for a
\* status it does not hold
C2_TableText(status) ==
    CASE status = 400 -> "Invalid argument provided."
      [] status = 401 -> "Request not authorized."
      [] status = 403 -> "Client does not have sufficient privileges."
      [] status = 404 -> "The specified entity could not be found."
      [] status = 409 -> "The specified entity already exists."
      [] status = 429 -> "Quota exceeded for the requested resource."
      [] status = 500 -> "Internal server error."
      [] status = 503 -> "The server could not process the request in time."
      [] OTHER -> "Error " \o ToString(status) \o "."

\* the label and the identifier each Firebase Rules operation names in its errors
C2_Label == IF last.op \in ReleaseOps THEN "Release" ELSE "Ruleset ID"
C2_Identifier == IF last.op = "create_ruleset" THEN "create" ELSE last.args[1]

\* C2: the message of a Firebase Rules error is '{label} "{identifier}": ' followed
\* by the table text of the status, by 'Error {status}.' for a status outside the
\* table (423 among them), or by the text of a transport error without response.
C2_FirebaseMessages ==
    (last.op \in FirebaseOps /\ TransportFailed) =>
        LET error == last.reply[1].error
            head == C2_Label \o " \"" \o C2_Identifier \o "\": "
        IN  /\ last.out.kind = "raise"
            /\ last.out.message =
                   IF error.response = None THEN head \o error.text
                   ELSE head \o C2_TableText(error.response[1].status_code)

C2_Witness ==
    /\ last.op = "get_rules_release"
    /\ TransportFailed
    /\ last.reply[1].error.response = Some([status_code |-> 423])
    /\ last.out.message = "Release \"firebase.storage/b1\": Error 423."

\* the latest operation was a read of ruleset.files; last.args[1] is the instance
\* as it was before the read
ReadOfFiles == last.op = "files"
Unloaded(rs) == rs.files = None /\ rs.service # None

\* C3: on a Ruleset constructed with files absent and a client reference, a first
\* read whose fetch succeeds issues exactly one GET rulesets/{ruleset_id} and returns
\* the list it stores; a read of a loaded instance issues no call, returns the
\* stored list and leaves the instance as it is; no step changes a loaded instance.
C3_FirstRead ==
    (ReadOfFiles /\ Unloaded(last.args[1]) /\ last.out.kind = "return") =>
        /\ Len(sent) = 1
        /\ sent[1].method = "get"
        /\ sent[1].url = "rulesets/" \o last.args[1].ruleset_id
        /\ ruleset[1].files # None
        /\ last.out.value = ruleset[1].files
        /\ ruleset[1] = [last.args[1] EXCEPT !.files = ruleset[1].files]

C3_LaterRead ==
    (ReadOfFiles /\ last.args[1].files # None) =>
        /\ sent = <<>>
        /\ last.out = Return(last.args[1].files)
        /\ ruleset[1] = last.args[1]

C3_LoadedStays ==
    (ruleset # None /\ ruleset[1].files # None) => ruleset' = ruleset

C3_FetchOnceThenCached ==
    /\ [](C3_FirstRead /\ C3_LaterRead)
    /\ [][C3_LoadedStays]_vars

C3_Witness ==
    /\ ReadOfFiles
    /\ last.args[1].service # None
    /\ last.args[1].files # None
    /\ Len(last.args[1].files[1]) = 2
    /\ last.out.value = last.args[1].files
    /\ sent = <<>>

\* C4: every Firebase Rules operation either returns (the mapped resource, or
\* nothing for delete) when the transport answers with a successful response, whatever
\* names that response holds, or raises RulesApiCallError with a message and the
\* transport error as its detail.
C4_ReturnsOrRaisesApiCallError ==
    (last.op \in FirebaseOps) =>
        \/ /\ TransportSucceeded
           /\ last.out.kind = "return"
           /\ (last.op = "delete_ruleset") = (last.out.value = None)
        \/ /\ TransportFailed
           /\ last.out.kind = "raise"
           /\ last.out.type = "RulesApiCallError"
           /\ last.out.detail = Some(last.reply[1].error)

\* C5: every invocation of an implemented client operation hands exactly one request
\* to the transport, whether the call succeeds or fails, and an invocation whose call
\* failed raises.
C5_SingleShot ==
    (last.op \in DatabaseOps \cup FirebaseOps) =>
        /\ Len(sent) = 1
        /\ TransportFailed => last.out.kind = "raise"

C5_Witness ==
    /\ last.op = "update_rules_release"
    /\ TransportFailed
    /\ last.reply[1].error.response = None
    /\ last.out.kind = "raise"
    /\ Len(sent) = 1

\* how many client instances exist
C6_Instances == (IF fb = None THEN 0 ELSE 1) + (IF db = None THEN 0 ELSE 1)

\* C6: constructing a Firebase Rules client from an app without a project id, or a
\* Database Rules client from an app with no or an empty databaseURL, raises
\* ValueError, yields no instance, creates no HTTP client and issues no request.
C6_ConfigurationErrors ==
    /\ httpClients = C6_Instances
    /\ (last.op = "_FirebaseRulesService" /\ Falsy(last.args[1].project_id)) =>
           /\ last.out.kind = "raise"
           /\ last.out.type = "ValueError"
           /\ fb = None
           /\ sent = <<>>
    /\ (last.op = "_DatabaseRulesService" /\ Falsy(last.args[1].options.databaseURL)) =>
           /\ last.out.kind = "raise"
           /\ last.out.type = "ValueError"
           /\ db = None
           /\ sent = <<>>

C6_Witness ==
    /\ last.op = "_DatabaseRulesService"
    /\ last.args[1].options.databaseURL = Some("")
    /\ last.out.kind = "raise"
    /\ fb # None
    /\ httpClients = 1

C7_Contains(s, c) == \E i \in 1..Len(s) : CharAt(s, i) = c

\* the latest operation is a release operation on release name n that the backend
\* answered with name 'projects/{p}/releases/{n}' and rulesetName
\* 'projects/{p}/rulesets/{r}', the names create and update send in their body
C7_Echoed(n, r) ==
    /\ last.op \in ReleaseOps
    /\ last.args[1] = n
    /\ last.op # "get_rules_release" => last.args[2] = r
    /\ TransportSucceeded
    /\ last.reply[1].body.name = "projects/" \o fb[1].project_id \o "/releases/" \o n
    /\ last.reply[1].body.rulesetName = "projects/" \o fb[1].project_id \o "/rulesets/" \o r

C7_RoundTripped(n, r) ==
    /\ last.out.kind = "return"
    /\ last.out.value[1].class = "RulesRelease"
    /\ last.out.value[1].name = n
    /\ last.out.value[1].ruleset_id = r

\* C7 as stated: for every project id, release name and ruleset id, a release
\* operation answered with the echoed names returns a RulesRelease with name == n and
\* ruleset_id == r.
C7_RoundTripEveryName ==
    \A n \in ReleaseNames, r \in RulesetIds :
        C7_Echoed(n, r) => C7_RoundTripped(n, r)

\* C7: get_rules_release, create_rules_release and update_rules_release answered with
\* the echoed names return a RulesRelease with name == n and ruleset_id == r, for
\* every project id without '/' and every non-empty release name and ruleset id
\* without a line break; release names may hold '/'.
C7_RoundTrip ==
    \A n \in ReleaseNames, r \in RulesetIds :
        ( /\ C7_Echoed(n, r)
          /\ ~C7_Contains(fb[1].project_id, "/")
          /\ n # "" /\ ~C7_Contains(n, "\n")
          /\ r # "" /\ ~C7_Contains(r, "\n") )
        => C7_RoundTripped(n, r)

C7_Witness ==
    /\ last.op = "create_rules_release"
    /\ C7_Echoed("firebase.storage/b1", "abc")
    /\ C7_RoundTripped("firebase.storage/b1", "abc")

C9_ReleaseNameForService ==
    (last.op = "_get_release_name_for_service") =>
        LET bucket == fb[1].storage_bucket
        IN  /\ sent = <<>>
            /\ last.args[1] = "firestore" => last.out = Return(Some("cloud.firestore"))
            /\ (last.args[1] = "storage" /\ bucket # None /\ bucket # Some("")) =>
                   last.out = Return(Some("firebase.storage/" \o bucket[1]))
            /\ (last.args[1] = "storage" /\ (bucket = None \/ bucket = Some(""))) =>
                   (last.out.kind = "raise" /\ last.out.type = "ValueError")

C9_Witness ==
    /\ last.op = "_get_release_name_for_service"
    /\ last.args[1] = "storage"
    /\ fb[1].storage_bucket = Some("b1")
    /\ last.out = Return(Some("firebase.storage/b1"))

\* the body create_rules_release and update_rules_release send
C10_ReleaseBody ==
    [release |->
        [name |-> "projects/" \o fb[1].project_id \o "/releases/" \o last.args[1],
         rulesetName |-> "projects/" \o fb[1].project_id \o "/rulesets/" \o last.args[2]]]

\* the body create_ruleset sends
C10_RulesetBody ==
    [source |->
        [files |-> [i \in 1..Len(last.args[1]) |->
                       [name |-> last.args[1][i].name, content |-> last.args[1][i].content]]]]

C10_Sent(method, url, json) ==
    /\ Len(sent) >= 1
    /\ sent[1].method = method
    /\ sent[1].url = url
    /\ sent[1].json = json

\* C10: the request of each Firebase Rules operation: GET rulesets/{id}, DELETE
\* rulesets/{id}, POST rulesets with {source: {files: [{name, content}, ...]}} in the
\* order given, GET releases/{n}, POST releases and PATCH releases/{n} with the same
\* body {release: {name: 'projects/{p}/releases/{n}', rulesetName:
\* 'projects/{p}/rulesets/{r}'}}, p the project id of the client.
C10_Requests ==
    /\ last.op = "get_ruleset" => C10_Sent("get", "rulesets/" \o last.args[1], None)
    /\ last.op = "delete_ruleset" => C10_Sent("delete", "rulesets/" \o last.args[1], None)
    /\ last.op = "create_ruleset" => C10_Sent("post", "rulesets", Some(C10_RulesetBody))
    /\ last.op = "get_rules_release" => C10_Sent("get", "releases/" \o last.args[1], None)
    /\ last.op = "create_rules_release" => C10_Sent("post", "releases", Some(C10_ReleaseBody))
    /\ last.op = "update_rules_release" =>
           C10_Sent("patch", "releases/" \o last.args[1], Some(C10_ReleaseBody))

C10_Witness ==
    /\ last.op = "update_rules_release"
    /\ last.args = <<"live", "abc">>
    /\ fb[1].project_id = "p1"
    /\ sent[1].method = "patch"
    /\ sent[1].url = "releases/live"
    /\ sent[1].json = Some([release |-> [name |-> "projects/p1/releases/live",
                                         rulesetName |-> "projects/p1/rulesets/abc"]])

\* a step leaves the configuration of the constructed clients as it is
C11_ConfigurationFixed ==
    /\ fb # None => fb' = fb
    /\ db # None => db' = db

\* a step leaves the caller's Ruleset as it is, or is the read of files that takes
\* it from unloaded to loaded and changes its files only
C11_OnlyFilesLoad ==
    ruleset # None =>
        \/ ruleset' = ruleset
        \/ /\ ruleset[1].files = None
           /\ last'.op = "files"
           /\ ruleset' # None
           /\ ruleset'[1].files # None
           /\ ruleset'[1] = [ruleset[1] EXCEPT !.files = ruleset'[1].files]

\* C11: no client operation, successful or failing, changes the project id, storage
\* bucket, transport or timeout of a constructed client; the only change after
\* construction is the files field of a Ruleset, on the unloaded-to-loaded transition
\* made by a read of files.
C11_FrameAfterConstruction == [][C11_ConfigurationFixed /\ C11_OnlyFilesLoad]_vars

C11_Witness ==
    /\ ReadOfFiles
    /\ Unloaded(last.args[1])
    /\ ruleset[1].files # None
    /\ ruleset[1].service = fb
    /\ fb[1].project_id = "p1"
    /\ fb[1].storage_bucket = Some("b1")
    /\ fb[1].timeout = Some(5)
    /\ db # None

\* a read of files on an unloaded Ruleset whose fetch raised: the error reaches the
\* reader (the RulesApiCallError of the failed call with its cause) and the instance
\* is as it was before the read
C12_FailedFetch ==
    (ReadOfFiles /\ Unloaded(last.args[1])) =>
        /\ TransportFailed =>
               /\ last.out.kind = "raise"
               /\ last.out.type = "RulesApiCallError"
               /\ last.out.detail = Some(last.reply[1].error)
        /\ last.out.kind = "raise" => ruleset[1] = last.args[1]

\* a read of files on a Ruleset with neither files nor a client returns None, sends
\* nothing and leaves the instance as it was
C12_NoClient ==
    (ReadOfFiles /\ last.args[1].files = None /\ last.args[1].service = None) =>
        /\ last.out = Return(None)
        /\ sent = <<>>
        /\ ruleset[1] = last.args[1]

\* a read of files on an unloaded Ruleset sends a fetch, whatever came before
C12_UnloadedReadFetches ==
    (ruleset # None /\ Unloaded(ruleset[1]) /\ last'.op = "files") =>
        /\ Len(sent') = 1
        /\ sent'[1].method = "get"
        /\ sent'[1].url = "rulesets/" \o ruleset[1].ruleset_id

\* a Ruleset gets its files only from a fetch that the transport answered
\* successfully and that returned
C12_LoadedBySuccess ==
    (ruleset # None /\ ruleset[1].files = None
        /\ ruleset' # None /\ ruleset'[1].files # None) =>
        /\ last'.op = "files"
        /\ last'.reply # None
        /\ last'.reply[1].kind = "ok"
        /\ last'.out.kind = "return"
        /\ Len(sent') = 1

\* C12: when the fetch of a read of files on an unloaded Ruleset fails, the error
\* reaches the reader and the Ruleset stays unloaded and unchanged, so the next read
\* fetches again; a Ruleset becomes loaded only by a fetch that succeeded; a Ruleset
\* with neither files nor a client returns no files on every read and sends nothing.
C12_FailedFetchLeavesUnloaded ==
    /\ [](C12_FailedFetch /\ C12_NoClient)
    /\ [][C12_UnloadedReadFetches /\ C12_LoadedBySuccess]_vars

C12_Witness ==
    /\ ReadOfFiles
    /\ Unloaded(last.args[1])
    /\ TransportFailed
    /\ last.reply[1].error.response = Some([status_code |-> 503])
    /\ last.out.type = "RulesApiCallError"
    /\ ruleset[1] = last.args[1]
    /\ Len(sent) = 1

====
